---------------------------- MODULE Spec2Model ----------------------------
(***************************************************************************)
(* Model of the indicator service (src/indicator-service/app.py): the      *)
(* numeric sanitizer, the return/equity normalizer, the period resolver,   *)
(* the metrics aggregator of POST /metrics/quantstats and the dispatcher   *)
(* and hand-written indicators of POST /indicator.                         *)
(*                                                                         *)
(* Floating values are modelled exactly: a finite float is a rational      *)
(* n/d in lowest terms, and NaN, +Inf, -Inf and Python's None are their    *)
(* own values.  A rolling standard deviation is kept as "the square root   *)
(* of n/d".  Rounding of IEEE arithmetic is outside the model.             *)
(*                                                                         *)
(* The numeric libraries (TA-Lib, quantstats) are black boxes: a TA-Lib    *)
(* call is recorded by the function called and the output line returned,   *)
(* a quantstats call by the kind of outcome it produced.                   *)
(***************************************************************************)
EXTENDS Integers, Sequences, FiniteSets, TLC

VARIABLES
    pc,           \* position of the service: "idle" or inside one call
    arr, out,     \* _nan_to_none: its argument and its result
    payload,      \* POST /indicator: the request body
    resp,         \* POST /indicator: the response
    payload2,     \* a second /indicator request (two-run comparison)
    resp2,        \* its response
    req,          \* POST /metrics/quantstats: the request body
    returns_arr,  \* quantstats_metrics: the return series used
    qresp,        \* quantstats_metrics: the status of the response
    metrics,      \* quantstats_metrics: the report being filled
    captured,     \* quantstats_metrics: the number of capture() calls made
    value,        \* capture(): what fn() produced in the last call
    settings      \* quantstats_metrics: freq, periods_per_year

vars == <<pc, arr, out, payload, resp, payload2, resp2,
          req, returns_arr, qresp, metrics, captured, value, settings>>

-----------------------------------------------------------------------------
(* Bounds of the model *)

\* longest array handed to _nan_to_none
MaxArr == 3
\* longest price array of an /indicator request
MaxLen == 4
\* prices are the integers 0..MaxPrice
MaxPrice == 2
\* VOLATILITY windows are 1..MaxPeriod
MaxPeriod == 3
\* longest equity array of a /metrics/quantstats request
MaxObs == 4
\* longest returns array of a /metrics/quantstats request
MaxRet == 3

-----------------------------------------------------------------------------
(* Floating values *)

RECURSIVE GCD(_, _)
GCD(a, b) == IF b = 0 THEN a ELSE GCD(b, a % b)

Abs(x) == IF x < 0 THEN -x ELSE x

\* the finite float n/d (d # 0), in lowest terms with a positive denominator
Fin(n, d) ==
    LET g == GCD(Abs(n), Abs(d))
        s == IF d < 0 THEN -1 ELSE 1
    IN  [t |-> "fin", n |-> (s * n) \div g, d |-> (s * d) \div g]

NaN  == [t |-> "nan",  n |-> 0, d |-> 1]
PInf == [t |-> "pinf", n |-> 0, d |-> 1]
NInf == [t |-> "ninf", n |-> 0, d |-> 1]
None == [t |-> "none", n |-> 0, d |-> 1]

\* the square root of the non-negative rational n/d: a finite float
Sqrt(n, d) == [t |-> "sqrt", n |-> Fin(n, d).n, d |-> Fin(n, d).d]

\* math.isfinite / np.isfinite
isfinite(x) == x.t \in {"fin", "sqrt"}
\* np.isnan
isnan(x) == x.t = "nan"

Sign(x) == CASE x.t = "pinf" -> 1
             [] x.t = "ninf" -> -1
             [] OTHER -> IF x.n > 0 THEN 1 ELSE IF x.n < 0 THEN -1 ELSE 0

\* IEEE a / b on floats (finite operands are rationals)
FDiv(a, b) ==
    CASE isnan(a) \/ isnan(b) -> NaN
      [] a.t = "fin" /\ b.t = "fin" ->
            IF b.n # 0 THEN Fin(a.n * b.d, a.d * b.n)
            ELSE IF a.n > 0 THEN PInf
            ELSE IF a.n < 0 THEN NInf
            ELSE NaN
      [] a.t = "fin" -> Fin(0, 1)                     \* finite / +-Inf
      [] b.t = "fin" ->                                \* +-Inf / finite
            IF Sign(a) * (IF Sign(b) < 0 THEN -1 ELSE 1) > 0 THEN PInf ELSE NInf
      [] OTHER -> NaN                                  \* +-Inf / +-Inf

\* IEEE a - b on floats
FSub(a, b) ==
    CASE isnan(a) \/ isnan(b) -> NaN
      [] a.t = "fin" /\ b.t = "fin" -> Fin(a.n * b.d - b.n * a.d, a.d * b.d)
      [] a.t = "fin" -> IF b.t = "pinf" THEN NInf ELSE PInf
      [] b.t = "fin" -> a
      [] OTHER -> IF a.t = b.t THEN NaN ELSE a

One == Fin(1, 1)

-----------------------------------------------------------------------------
(* numpy arrays are sequences; Python indexes from 0 *)

At(s, i) == s[i + 1]

\* s[start:stop] with Python's treatment of negative and out-of-range indexes
PyIndex(len, i) ==
    LET j == IF i < 0 THEN i + len ELSE i
    IN  IF j < 0 THEN 0 ELSE IF j > len THEN len ELSE j

PySlice(s, start, stop) ==
    LET a == PyIndex(Len(s), start)
        b == PyIndex(Len(s), stop)
    IN  IF a >= b THEN <<>> ELSE SubSeq(s, a + 1, b)

\* all sequences over S of length lo..hi
SeqsOf(S, lo, hi) == UNION {[1..k -> S] : k \in lo..hi}

-----------------------------------------------------------------------------
(* Utils *)

\* _nan_to_none: None and NaN become None, every other element float(x)
nan_to_none(a) ==
    [i \in 1..Len(a) |-> IF a[i].t = "none" \/ isnan(a[i]) THEN None ELSE a[i]]

\* _as_nd: the list as a float64 array
as_nd(a) == a

-----------------------------------------------------------------------------
(* POST /indicator: the request *)

Keys == {"indicator", "prices", "high", "low", "close", "volume"}

\* indicator names as callers may write them, and str.upper().strip() of each
RawNames ==
    {"CURRENT_PRICE", "PRICE", "CLOSE", "LAST", "RSI", "SMA", "EMA",
     "MACD", "MACD_HIST", "MACD-HIST", "MACD_LINE", "MACD_SIGNAL",
     "PPO", "PPO_LINE", "PPO_SIGNAL", "PPO_HIST",
     "BBANDS_UPPER", "BBANDS_MIDDLE", "BBANDS_LOWER",
     "CUMULATIVE_RETURN", "VOLATILITY",
     "ADX", "STOCH_K", "AROON_UP", "AROON_DOWN", "AROONOSC", "WILLR", "CCI",
     "NATR", "MFI", "AD", "ADOSC", "OBV",
     "STOCH_D", "STOCH", "AROON", "BBANDS", "FOO", "",
     " rsi ", "foo", "stoch_d ", "Volatility", " obv"}

upper_strip(s) ==
    CASE s = " rsi "       -> "RSI"
      [] s = "foo"         -> "FOO"
      [] s = "stoch_d "    -> "STOCH_D"
      [] s = "Volatility"  -> "VOLATILITY"
      [] s = " obv"        -> "OBV"
      [] OTHER             -> s

\* str.lower() on the values given for params["annualize"]
Annualize == {"true", "True", "false"}
lower(s) == IF s = "True" THEN "true" ELSE s

\* params.get(name, default): a parameter is a set, empty when the key is absent
get(param, default) == IF param = {} THEN default ELSE CHOOSE v \in param : TRUE

NoPayload ==
    [fields |-> {}, indicator |-> "", prices |-> <<>>, high |-> <<>>, low |-> <<>>,
     close |-> <<>>, volume |-> <<>>, period |-> {}, annualize |-> {}]

\* the value of payload.get("indicator"): None (here "") when the key is absent
get_indicator(p) == IF "indicator" \in p.fields THEN p.indicator ELSE ""

-----------------------------------------------------------------------------
(* POST /indicator: the response *)

\* an HTTPException or an uncaught exception: detail is <<text, shape, indicator>>,
\* the shape and the indicator being those the message names ("" when none)
Error(status, text, shape, ind, path) ==
    [status |-> status, detail |-> <<text, shape, ind>>, path |-> path,
     lib |-> "", line |-> "", values |-> <<>>]

\* {"values": _nan_to_none(values)} of a hand-written computation
Values(path, values) ==
    [status |-> 200, detail |-> <<"", "", "">>, path |-> path,
     lib |-> "", line |-> "", values |-> nan_to_none(values)]

\* {"values": _nan_to_none(out)} where out is output `line` of TA-Lib's `lib`
Line(path, lib, line) ==
    [status |-> 200, detail |-> <<"", "", "">>, path |-> path,
     lib |-> lib, line |-> line, values |-> <<>>]

NoResp == Error(0, "", "", "", "")

\* the outputs of the multi-output TA-Lib functions, in the order returned
talib_MACD   == <<"macd", "macdsignal", "macdhist">>
talib_BBANDS == <<"upperband", "middleband", "lowerband">>
talib_AROON  == <<"aroondown", "aroonup">>
talib_STOCH  == <<"slowk", "slowd">>

-----------------------------------------------------------------------------
(* numpy helpers of the hand-written indicators *)

\* np.full(n, np.nan)
full_nan(n) == [i \in 1..n |-> NaN]

\* result[start:] = src.  numpy broadcasts a source of length 1 and raises
\* ValueError for any other length that differs from the target's
assign_from(result, start, src) ==
    LET a == PyIndex(Len(result), start)
        m == Len(result) - a
    IN  IF Len(src) = m
          THEN [ok |-> TRUE,
                a |-> [i \in 1..Len(result) |-> IF i <= a THEN result[i] ELSE src[i - a]]]
        ELSE IF Len(src) = 1
          THEN [ok |-> TRUE,
                a |-> [i \in 1..Len(result) |-> IF i <= a THEN result[i] ELSE src[1]]]
        ELSE [ok |-> FALSE, a |-> result]

RAdd(a, b) == Fin(a.n * b.d + b.n * a.d, a.d * b.d)
RMul(a, b) == Fin(a.n * b.n, a.d * b.d)

RECURSIVE RSum(_)
RSum(s) == IF s = <<>> THEN Fin(0, 1) ELSE RAdd(s[1], RSum(Tail(s)))

\* annualization factor: np.sqrt(252) multiplies a standard deviation
TradingDays == 252

\* sample standard deviation (ddof = 1) of a window, times sqrt(scale):
\* NaN for a window of one value or one holding a non-finite value
\* (pandas turns +-Inf into NaN before rolling)
window_std(w, scale) ==
    LET k   == Len(w)
        sq  == [i \in 1..k |-> RMul(w[i], w[i])]
        num == FSub(RMul(Fin(k, 1), RSum(sq)), RMul(RSum(w), RSum(w)))
    IN  IF k < 2 \/ \E i \in 1..k : w[i].t # "fin"
          THEN NaN
          ELSE Sqrt(scale * num.n, num.d * k * (k - 1))

\* pd.Series(returns).rolling(window=period).std().values, times sqrt(scale):
\* entry j (from 0) is the deviation of returns[j-period+1 .. j], NaN while j < period-1
rolling_std(returns, period, scale) ==
    [j1 \in 1..Len(returns) |->
        IF j1 < period THEN NaN
        ELSE window_std(SubSeq(returns, j1 - period + 1, j1), scale)]

\* np.diff(prices) / prices[:-1]
simple_returns(prices) ==
    [j1 \in 1..(Len(prices) - 1) |-> FDiv(FSub(prices[j1 + 1], prices[j1]), prices[j1])]

-----------------------------------------------------------------------------
(* POST /indicator: the hand-written close-only indicators *)

\* CUMULATIVE_RETURN: result[0] = 0, result[1:] = prices[:-1] / prices[0] - 1
cumulative_return(prices) ==
    LET n == Len(prices)
    IN  IF n < 1 \/ At(prices, 0) = Fin(0, 1)
          THEN Error(400, "Invalid prices for cumulative return", "", "", "close-only")
          ELSE LET result  == full_nan(n)
                   shifted == [i \in 1..(n - 1) |-> FSub(FDiv(prices[i], At(prices, 0)), One)]
                   lagged  == IF n > 1 THEN assign_from(result, 1, shifted).a ELSE result
               IN  Values("close-only", [lagged EXCEPT ![1] = Fin(0, 1)])

\* the slice without the one-day lag: result[i] would take rolling_vol[i-1]
unlagged_vol(rolling_vol, period) == PySlice(rolling_vol, period - 1, Len(rolling_vol))

\* rolling_vol[period-2:-1], the source of result[period:]
lagged_vol(rolling_vol, period) == PySlice(rolling_vol, period - 2, -1)

\* VOLATILITY
volatility(prices, p) ==
    LET n         == Len(prices)
        period    == get(p.period, 20)
        annualize == lower(get(p.annualize, "true")) = "true"
    IN  IF n < period + 1
          THEN Error(400, "Need at least period + 1 prices for volatility calculation",
                     "", "", "close-only")
          ELSE LET returns     == simple_returns(prices)
                   rolling_vol == rolling_std(returns, period,
                                              IF annualize THEN TradingDays ELSE 1)
                   result      == full_nan(n)
                   shifted     == assign_from(result, period, lagged_vol(rolling_vol, period))
               IN  IF n > period
                     THEN IF shifted.ok
                            THEN Values("close-only", shifted.a)
                            ELSE Error(500, "ValueError", "", "", "close-only")
                     ELSE Values("close-only", result)

-----------------------------------------------------------------------------
(* POST /indicator: the four paths *)

\* the unsupported-indicator error without the indicator's name
unsupported_unnamed(shape, ind) ==
    Error(400, "Unsupported indicator", shape, "", shape)

\* HTTPException(400, f"Unsupported <shape> indicator '{ind}'")
unsupported(shape, ind) ==
    Error(400, "Unsupported indicator", shape, ind, shape)

\* a pydantic model built from a payload that lacks one of its required fields
\* raises ValidationError inside the handler
validated(p, required) == required \subseteq p.fields

close_only_path(p, ind) ==
    LET prices == as_nd(p.prices)
        path   == "close-only"
    IN  IF ~validated(p, {"indicator", "prices"})
          THEN Error(500, "ValidationError", "", "", path)
        ELSE IF Len(prices) < 2
          THEN Error(400, "prices must contain at least 2 values", "", "", path)
        ELSE IF ind \in {"CURRENT_PRICE", "PRICE", "CLOSE", "LAST"}
          THEN Values(path, prices)
        ELSE IF ind = "RSI"
          THEN IF Len(prices) < get(p.period, 14)
                 THEN Error(400, "prices length must be >= period", "", "", path)
                 ELSE Line(path, "RSI", "real")
        ELSE IF ind = "SMA" THEN Line(path, "SMA", "real")
        ELSE IF ind = "EMA" THEN Line(path, "EMA", "real")
        ELSE IF ind \in {"MACD", "MACD_HIST", "MACD-HIST", "MACD_LINE", "MACD_SIGNAL"}
          THEN LET macd        == talib_MACD[1]
                   macd_signal == talib_MACD[2]
                   macd_hist   == talib_MACD[3]
               IN  IF ind \in {"MACD", "MACD_HIST", "MACD-HIST"}
                     THEN Line(path, "MACD", macd_hist)
                   ELSE IF ind = "MACD_LINE"
                     THEN Line(path, "MACD", macd)
                   ELSE Line(path, "MACD", macd_signal)
        ELSE IF ind \in {"PPO", "PPO_LINE", "PPO_SIGNAL", "PPO_HIST"}
          THEN IF ind \in {"PPO", "PPO_LINE"}
                 THEN Line(path, "PPO", "real")
               ELSE IF ind = "PPO_SIGNAL"
                 THEN Line(path, "EMA(PPO)", "real")
               ELSE Line(path, "PPO - EMA(PPO)", "real")
        ELSE IF ind \in {"BBANDS_UPPER", "BBANDS_MIDDLE", "BBANDS_LOWER"}
          THEN LET upper  == talib_BBANDS[1]
                   middle == talib_BBANDS[2]
                   lower_ == talib_BBANDS[3]
               IN  IF ind = "BBANDS_UPPER" THEN Line(path, "BBANDS", upper)
                   ELSE IF ind = "BBANDS_MIDDLE" THEN Line(path, "BBANDS", middle)
                   ELSE Line(path, "BBANDS", lower_)
        ELSE IF ind = "CUMULATIVE_RETURN" THEN cumulative_return(prices)
        ELSE IF ind = "VOLATILITY" THEN volatility(prices, p)
        ELSE unsupported(path, ind)

hlc_path(p, ind) ==
    LET path == "HLC"
    IN  IF ~validated(p, {"indicator", "high", "low", "close"})
          THEN Error(500, "ValidationError", "", "", path)
        ELSE IF ind = "ADX" THEN Line(path, "ADX", "real")
        ELSE IF ind = "STOCH_K"
          THEN LET slowk_arr == talib_STOCH[1]
                   slowd_arr == talib_STOCH[2]
               IN  Line(path, "STOCH", slowk_arr)
        ELSE IF ind \in {"AROON_UP", "AROON_DOWN"}
          THEN LET aroondown == talib_AROON[1]
                   aroonup   == talib_AROON[2]
               IN  IF ind = "AROON_UP" THEN Line(path, "AROON", aroonup)
                   ELSE Line(path, "AROON", aroondown)
        ELSE IF ind = "AROONOSC" THEN Line(path, "AROONOSC", "real")
        ELSE IF ind = "WILLR" THEN Line(path, "WILLR", "real")
        ELSE IF ind = "CCI" THEN Line(path, "CCI", "real")
        ELSE IF ind = "NATR" THEN Line(path, "NATR", "real")
        ELSE unsupported(path, ind)

hlcv_path(p, ind) ==
    LET path == "HLCV"
    IN  IF ~validated(p, {"indicator", "high", "low", "close", "volume"})
          THEN Error(500, "ValidationError", "", "", path)
        ELSE IF ind = "MFI" THEN Line(path, "MFI", "real")
        ELSE IF ind = "AD" THEN Line(path, "AD", "real")
        ELSE IF ind = "ADOSC" THEN Line(path, "ADOSC", "real")
        ELSE unsupported(path, ind)

close_volume_path(p, ind) ==
    LET path == "Close+Volume"
    IN  IF ~validated(p, {"indicator", "close", "volume"})
          THEN Error(500, "ValidationError", "", "", path)
        ELSE IF ind = "OBV" THEN Line(path, "OBV", "real")
        ELSE unsupported(path, ind)

\* indicator_router: dispatch on the fields present
indicator_router(p) ==
    LET ind == upper_strip(get_indicator(p))
    IN  IF "prices" \in p.fields
          THEN close_only_path(p, ind)
        ELSE IF {"high", "low", "close"} \subseteq p.fields /\ "volume" \notin p.fields
          THEN hlc_path(p, ind)
        ELSE IF {"high", "low", "close", "volume"} \subseteq p.fields
          THEN hlcv_path(p, ind)
        ELSE IF {"close", "volume"} \subseteq p.fields /\ "high" \notin p.fields
          THEN close_volume_path(p, ind)
        ELSE Error(400, "Malformed request: missing required fields", "", "", "none")

-----------------------------------------------------------------------------
(* POST /metrics/quantstats: the return series *)

\* an Optional[List[float]]: given is FALSE for None
Absent == [given |-> FALSE, a |-> <<>>]
Given(a) == [given |-> TRUE, a |-> a]

NoRequest == [returns |-> Absent, equity |-> Absent, period |-> "daily"]

\* _clean_numeric_list: the finite entries, in order; empty for None or []
clean_numeric_list(values) ==
    IF ~values.given \/ values.a = <<>>
      THEN <<>>
      ELSE SelectSeq(values.a, isfinite)

\* _equity_to_returns: curr / prev - 1 over adjacent entries, a zero prev taken
\* as NaN, non-finite results dropped
equity_to_returns(equity) ==
    IF Len(equity) < 2
      THEN <<>>
      ELSE LET prev      == PySlice(equity, 0, -1)
               curr      == PySlice(equity, 1, Len(equity))
               safe_prev == [i \in 1..Len(prev) |->
                                IF prev[i] = Fin(0, 1) THEN NaN ELSE prev[i]]
               returns   == [i \in 1..Len(prev) |->
                                FSub(FDiv(curr[i], safe_prev[i]), One)]
           IN  SelectSeq(returns, isfinite)

\* a wrong choice: the equity curve is consulted only when no return is clean
select_returns_unless_empty(r) ==
    LET cleaned == clean_numeric_list(r.returns)
    IN  IF Len(cleaned) < 1 /\ r.equity.given /\ r.equity.a # <<>>
          THEN equity_to_returns(clean_numeric_list(r.equity))
          ELSE cleaned

\* the series quantstats_metrics goes on with
\* (returns_arr after the first two statements of the handler)
select_returns(r) ==
    LET cleaned == clean_numeric_list(r.returns)
    IN  IF Len(cleaned) < 2 /\ r.equity.given /\ r.equity.a # <<>>
          THEN equity_to_returns(clean_numeric_list(r.equity))
          ELSE cleaned

-----------------------------------------------------------------------------
(* POST /metrics/quantstats: the period *)

\* period labels as callers may write them
PeriodLabels ==
    {"", "daily", " Weekly ", "1M", "quarter", "1y", "12", " 2.5", "0.5", "0", "-3",
     "inf", "nan", "abc"}

\* str(label).strip().lower()
strip_lower(label) ==
    CASE label = " Weekly " -> "weekly"
      [] label = "1M"       -> "1m"
      [] label = " 2.5"     -> "2.5"
      [] OTHER              -> label

\* _PERIOD_SETTINGS
PERIOD_SETTINGS ==
    [key \in {"daily", "day", "1d", "weekly", "week", "1w", "monthly", "month", "1m",
              "quarterly", "quarter", "1q", "yearly", "annual", "1y"} |->
        CASE key \in {"daily", "day", "1d"}           -> <<"D", 252>>
          [] key \in {"weekly", "week", "1w"}         -> <<"W", 52>>
          [] key \in {"monthly", "month", "1m"}       -> <<"M", 12>>
          [] key \in {"quarterly", "quarter", "1q"}   -> <<"Q", 4>>
          [] OTHER                                    -> <<"Y", 1>>]

\* float(key): the number a string spells, None when float() raises ValueError
float_of(key) ==
    CASE key = "12"  -> Fin(12, 1)
      [] key = "2.5" -> Fin(5, 2)
      [] key = "0.5" -> Fin(1, 2)
      [] key = "0"   -> Fin(0, 1)
      [] key = "-3"  -> Fin(-3, 1)
      [] key = "inf" -> PInf
      [] key = "nan" -> NaN
      [] OTHER       -> None

\* int(x) of a finite float: truncation toward zero
int_of(x) == IF x.n >= 0 THEN x.n \div x.d ELSE -((-x.n) \div x.d)

\* _resolve_period_settings: <<outcome, freq, periods>>; int() of an infinite
\* float raises OverflowError, which the function does not catch
resolve_period_settings(label) ==
    LET key == strip_lower(label)
        x   == float_of(key)
    IN  IF label = "" THEN <<"return", "D", 252>>
        ELSE IF key \in DOMAIN PERIOD_SETTINGS
          THEN <<"return", PERIOD_SETTINGS[key][1], PERIOD_SETTINGS[key][2]>>
        ELSE IF x.t = "none" \/ x.t = "nan" THEN <<"return", "D", 252>>
        ELSE IF x.t \in {"pinf", "ninf"} THEN <<"OverflowError", "", 0>>
        ELSE IF int_of(x) > 0 THEN <<"return", "D", int_of(x)>>
        ELSE <<"return", "D", 252>>

\* freq, periods_per_year before the resolver has returned
NoSettings == <<"", 0>>

-----------------------------------------------------------------------------
(* POST /metrics/quantstats: the report *)

\* the statistics, in the order capture() is called for them
StatNames ==
    <<"qs_calmar", "qs_omega", "qs_tail_ratio", "qs_common_sense_ratio",
      "qs_value_at_risk", "qs_cvar", "qs_ulcer_index", "qs_avg_drawdown",
      "qs_avg_drawdown_days", "qs_payoff_ratio", "qs_profit_ratio",
      "qs_gain_to_pain_ratio", "qs_skew", "qs_kurtosis", "qs_win_rate",
      "qs_loss_rate">>

NoMetrics == [name \in {} |-> None]

\* what a call fn() of a statistic produced: a scalar of some type, a sequence
\* (of which only the first element matters), something else, or an exception
Produced(kind, len, v) == [kind |-> kind, len |-> len, v |-> v]
NoValue == Produced("", 0, None)

\* the finite value statistic k has when it has one
StatValue(k) == Fin(k, 1)

Outcomes(k) ==
    {Produced("float", 0, v) : v \in {StatValue(k), NaN, PInf, NInf}}
    \cup {Produced("np.floating", 0, v) : v \in {StatValue(k), PInf}}
    \cup {Produced("np.integer", 0, StatValue(k))}
    \cup {Produced("ndarray", 1, StatValue(k)), Produced("list", 0, None)}
    \cup {Produced("str", 0, None), Produced("raise", 0, None)}

\* metrics[name] = x
store(m, name, x) == (name :> x) @@ m

\* a wrong capture(): a non-finite float is stored as it is
captured_unchecked(o) ==
    IF o.kind \in {"float", "np.floating", "int", "np.integer", "ndarray"}
      THEN o.v ELSE None

\* the body of capture(): the entry it stores for what fn() produced
captured_value(o) ==
    IF o.kind = "raise" THEN None
    ELSE LET first  == IF o.kind \in {"ndarray", "list", "tuple"}
                         THEN IF o.len > 0
                                THEN Produced(IF o.kind = "ndarray" THEN "np.floating"
                                              ELSE "float", 0, o.v)
                                ELSE Produced("float", 0, NaN)
                         ELSE o
             scalar == IF first.kind \in {"np.floating", "np.integer"}
                         THEN Produced("float", 0, first.v)
                         ELSE first
         IN  IF scalar.kind \in {"int", "float"} /\ isfinite(scalar.v)
               THEN scalar.v
               ELSE None

-----------------------------------------------------------------------------
(* The requests explored *)

Price(k) == Fin(k, 1)
Prices == {Price(k) : k \in 0..MaxPrice}

\* the prices 1, 2, .., k
Ramp(k) == [i \in 1..k |-> Price(i)]

\* params["period"]: absent, or one of 1..MaxPeriod
PeriodParams == {{}} \cup {{q} : q \in 1..MaxPeriod}
AnnualizeParams == {{}} \cup {{a} : a \in Annualize}

\* any combination of fields, any indicator name; every array present holds the
\* same ramp of prices
AnyPayloads ==
    {[fields |-> f,
      indicator |-> IF "indicator" \in f THEN raw ELSE "",
      prices |-> IF "prices" \in f THEN Ramp(k) ELSE <<>>,
      high   |-> IF "high"   \in f THEN Ramp(k) ELSE <<>>,
      low    |-> IF "low"    \in f THEN Ramp(k) ELSE <<>>,
      close  |-> IF "close"  \in f THEN Ramp(k) ELSE <<>>,
      volume |-> IF "volume" \in f THEN Ramp(k) ELSE <<>>,
      period |-> q, annualize |-> {}] :
        f \in SUBSET Keys, raw \in RawNames, k \in 0..MaxLen, q \in PeriodParams}

\* close-only requests with any price array
CloseOnlyPayloads ==
    {[fields |-> {"indicator", "prices"}, indicator |-> raw, prices |-> ps,
      high |-> <<>>, low |-> <<>>, close |-> <<>>, volume |-> <<>>,
      period |-> q, annualize |-> a] :
        raw \in {"CUMULATIVE_RETURN", "VOLATILITY", "PRICE", "FOO"},
        ps \in SeqsOf(Prices, 0, MaxLen), q \in PeriodParams, a \in AnnualizeParams}

-----------------------------------------------------------------------------
(* State machine *)

qvars == <<req, returns_arr, qresp, metrics, captured, value, settings>>

Idle ==
    /\ pc = "idle"
    /\ arr = <<>> /\ out = <<>>
    /\ payload = NoPayload /\ resp = NoResp
    /\ payload2 = NoPayload /\ resp2 = NoResp
    /\ req = NoRequest /\ returns_arr = <<>> /\ qresp = 0
    /\ metrics = NoMetrics /\ captured = 0 /\ value = NoValue
    /\ settings = NoSettings

Init == Idle

\* a client posts a request of any shape to /indicator
PostAny ==
    /\ pc = "idle"
    /\ \E p \in AnyPayloads : payload' = p
    /\ resp' = NoResp
    /\ pc' = "routing"
    /\ UNCHANGED <<arr, out, payload2, resp2, qvars>>

\* a client posts a close-only request to /indicator
PostCloseOnly ==
    /\ pc = "idle"
    /\ \E p \in CloseOnlyPayloads : payload' = p
    /\ resp' = NoResp
    /\ pc' = "routing"
    /\ UNCHANGED <<arr, out, payload2, resp2, qvars>>

\* indicator_router answers the request
Route ==
    /\ pc = "routing"
    /\ resp' = indicator_router(payload)
    /\ pc' = "responded"
    /\ UNCHANGED <<arr, out, payload, payload2, resp2, qvars>>

\* the response is sent; nothing of the request outlives the call
Respond ==
    /\ pc = "responded"
    /\ pc' = "idle"
    /\ arr' = <<>> /\ out' = <<>>
    /\ payload' = NoPayload /\ resp' = NoResp
    /\ payload2' = NoPayload /\ resp2' = NoResp
    /\ req' = NoRequest /\ returns_arr' = <<>> /\ qresp' = 0
    /\ metrics' = NoMetrics /\ captured' = 0 /\ value' = NoValue
    /\ settings' = NoSettings

Next == PostAny \/ PostCloseOnly \/ Route \/ Respond

Spec == Init /\ [][Next]_vars

\* an /indicator request has been answered
Answered == pc = "responded" /\ resp.status # 0

-----------------------------------------------------------------------------
(* Claims about POST /indicator *)

\* the canonical indicator name of the request
Ind == upper_strip(get_indicator(payload))

\* a close-only request that names an indicator
CloseOnly == {"indicator", "prices"} \subseteq payload.fields

\* x / y - 1 for finite x and y, y # 0
RatioMinusOne(x, y) == Fin(x.n * y.d - y.n * x.d, x.d * y.n)

CumulativeReturnRequest(minLen) ==
    /\ Answered /\ CloseOnly /\ Ind = "CUMULATIVE_RETURN"
    /\ Len(payload.prices) >= minLen
    /\ At(payload.prices, 0) # Fin(0, 1)

CumulativeReturnAnswer ==
    LET P == payload.prices
        R == resp.values
    IN  /\ resp.status = 200
        /\ Len(R) = Len(P)
        /\ At(R, 0) = Fin(0, 1)
        /\ \A i \in 1..(Len(P) - 1) : At(R, i) = RatioMinusOne(At(P, i - 1), At(P, 0))

\* C1: every CUMULATIVE_RETURN request with a price array of length n >= 1 and
\* P[0] # 0 is answered with R of length n, R[0] = 0 and R[i] = P[i-1]/P[0] - 1.
C1_CumulativeReturnFromOnePrice == CumulativeReturnRequest(1) => CumulativeReturnAnswer

\* The same with at least two prices, the least the close-only path accepts.
CumulativeReturnFromTwoPrices == CumulativeReturnRequest(2) => CumulativeReturnAnswer

VolatilityRequest ==
    /\ Answered /\ CloseOnly /\ Ind = "VOLATILITY"
    /\ get(payload.period, 20) >= 1

\* the simple return d[j] = P[j+1]/P[j] - 1
SimpleReturn(P, j) == FSub(FDiv(At(P, j + 1), At(P, j)), One)

\* the rolling value of the window d[i-1-period .. i-2], as the response carries it
WindowValue(P, i, period, scale) ==
    LET w == [k \in 1..period |-> SimpleReturn(P, i - 2 - period + k)]
        v == window_std(w, scale)
    IN  IF isnan(v) THEN None ELSE v

VolatilityAnswer(minPeriod) ==
    LET P      == payload.prices
        V      == resp.values
        n      == Len(P)
        period == get(payload.period, 20)
        scale  == IF lower(get(payload.annualize, "true")) = "true" THEN TradingDays ELSE 1
    IN  period >= minPeriod =>
          /\ n < period + 1 => resp.status = 400
          /\ n >= period + 1 =>
                /\ resp.status = 200
                /\ Len(V) = n
                /\ \A i \in 0..(n - 1) :
                      At(V, i) = IF i < period + 1 THEN None
                                 ELSE WindowValue(P, i, period, scale)

\* C3: for every window period >= 1 a VOLATILITY request fails with a 400 when
\* n < period + 1 and otherwise returns V of length n, missing below index
\* period+1 and the rolling value of d[i-1-period .. i-2] from there on.
C3_VolatilityAlignment == VolatilityRequest => VolatilityAnswer(1)

\* The same for windows of at least two returns.
VolatilityAlignmentFromTwo == VolatilityRequest => VolatilityAnswer(2)

\* the indicator names each path supports
Supported(path) ==
    CASE path = "close-only" ->
            {"CURRENT_PRICE", "PRICE", "CLOSE", "LAST", "RSI", "SMA", "EMA",
             "MACD", "MACD_HIST", "MACD-HIST", "MACD_LINE", "MACD_SIGNAL",
             "PPO", "PPO_LINE", "PPO_SIGNAL", "PPO_HIST",
             "BBANDS_UPPER", "BBANDS_MIDDLE", "BBANDS_LOWER",
             "CUMULATIVE_RETURN", "VOLATILITY"}
      [] path = "HLC" ->
            {"ADX", "STOCH_K", "AROON_UP", "AROON_DOWN", "AROONOSC", "WILLR",
             "CCI", "NATR"}
      [] path = "HLCV" -> {"MFI", "AD", "ADOSC"}
      [] path = "Close+Volume" -> {"OBV"}
      [] OTHER -> {}

\* a request of one of the four shapes naming an indicator its shape lacks
UnsupportedRequest ==
    /\ Answered
    /\ "indicator" \in payload.fields
    /\ resp.path # "none"
    /\ Ind \notin Supported(resp.path)

NamesIndicatorAndShape ==
    /\ resp.status = 400
    /\ resp.detail = <<"Unsupported indicator", resp.path, Ind>>

MultiLines ==
    {<<"close-only", "MACD", talib_MACD[k]>> : k \in 1..3}
    \cup {<<"close-only", "BBANDS", talib_BBANDS[k]>> : k \in 1..3}
    \cup {<<"HLC", "AROON", talib_AROON[k]>> : k \in 1..2}
    \cup {<<"HLC", "STOCH", talib_STOCH[k]>> : k \in 1..2}

\* C8: every output line of MACD, BBANDS, AROON and STOCH can be had under an
\* indicator name of its own: a client whose request was served by a path gets
\* each line of that path's multi-line indicators by changing only the name.
C8_EveryLineHasItsName ==
    (Answered /\ resp.status = 200) =>
        \A l \in MultiLines :
            l[1] = resp.path =>
                \E raw \in RawNames :
                    LET r == indicator_router([payload EXCEPT !.indicator = raw])
                    IN  r.status = 200 /\ r.lib = l[2] /\ r.line = l[3]

\* C10: every combination of fields runs one of the four paths or is refused as
\* malformed; HLC only with high, low, close and no volume; HLCV only with all
\* four; close+volume only with close and volume and neither high nor low.
C10_ShapeOfPath ==
    (Answered /\ "indicator" \in payload.fields) =>
        LET f == payload.fields
        IN  /\ resp.path \in {"close-only", "HLC", "HLCV", "Close+Volume"}
               \/ /\ resp.status = 400
                  /\ resp.detail[1] = "Malformed request: missing required fields"
            /\ resp.path = "HLC" => {"high", "low", "close"} \subseteq f /\ "volume" \notin f
            /\ resp.path = "HLCV" => {"high", "low", "close", "volume"} \subseteq f
            /\ resp.path = "Close+Volume" =>
                    {"close", "volume"} \subseteq f /\ "high" \notin f /\ "low" \notin f

-----------------------------------------------------------------------------
(* Two VOLATILITY requests side by side *)

\* a VOLATILITY request and a second one of the same length, period and
\* annualization, with any prices
VolatilityPayload(ps, q) ==
    [fields |-> {"indicator", "prices"}, indicator |-> "VOLATILITY", prices |-> ps,
     high |-> <<>>, low |-> <<>>, close |-> <<>>, volume |-> <<>>,
     period |-> {q}, annualize |-> {}]

PositivePrices == {Price(k) : k \in 1..MaxPrice}

PostTwo ==
    /\ pc = "idle"
    /\ \E n \in 0..MaxLen, q \in 1..MaxPeriod :
         \E ps \in [1..n -> PositivePrices], ps2 \in [1..n -> PositivePrices] :
            /\ payload' = VolatilityPayload(ps, q)
            /\ payload2' = VolatilityPayload(ps2, q)
    /\ resp' = NoResp /\ resp2' = NoResp
    /\ pc' = "routing two"
    /\ UNCHANGED <<arr, out, qvars>>

\* indicator_router answers both requests, each on its own
RouteTwo ==
    /\ pc = "routing two"
    /\ resp' = indicator_router(payload)
    /\ resp2' = indicator_router(payload2)
    /\ pc' = "responded"
    /\ UNCHANGED <<arr, out, payload, payload2, qvars>>

NextTwo == PostTwo \/ RouteTwo \/ Respond

SpecTwo == Init /\ [][NextTwo]_vars

BothAccepted ==
    /\ pc = "responded"
    /\ resp.status = 200 /\ resp2.status = 200
    /\ Len(payload.prices) = Len(payload2.prices)
    /\ payload.period = payload2.period

AgreeBelow(i) == \A j \in 0..(i - 1) : At(payload.prices, j) = At(payload2.prices, j)

\* C2: two accepted price arrays of the same length and period that agree on
\* every index below i have the same V[i]: V[i] never reads P[i] or a later price.
C2_NoLookahead ==
    BothAccepted =>
        \A i \in 0..(Len(payload.prices) - 1) :
            AgreeBelow(i) => At(resp.values, i) = At(resp2.values, i)

\* two arrays that first differ at index i, where V[i] holds a value
C2_Witness ==
    /\ BothAccepted
    /\ \E i \in 0..(Len(payload.prices) - 1) :
          /\ AgreeBelow(i)
          /\ At(payload.prices, i) # At(payload2.prices, i)
          /\ isfinite(At(resp.values, i))
          /\ At(resp.values, i) = At(resp2.values, i)

-----------------------------------------------------------------------------
(* POST /metrics/quantstats *)

R1 == Fin(1, 100)
R2 == Fin(-1, 50)

ReturnLists == SeqsOf({R1, R2, NaN, PInf}, 0, MaxRet)
EquityLists == SeqsOf({Fin(0, 1), Fin(1, 1), Fin(2, 1), NaN}, 0, MaxObs)

\* any returns and any equity curve, either of them possibly absent
PostMetrics ==
    /\ pc = "idle"
    /\ \E r \in {Absent} \cup {Given(a) : a \in ReturnLists},
          e \in {Absent} \cup {Given(a) : a \in EquityLists} :
            req' = [returns |-> r, equity |-> e, period |-> "daily"]
    /\ pc' = "quantstats"
    /\ UNCHANGED <<arr, out, payload, resp, payload2, resp2,
                   returns_arr, qresp, metrics, captured, value, settings>>

\* clean returns with any period label
PostPeriod ==
    /\ pc = "idle"
    /\ \E n \in 2..MaxRet, label \in PeriodLabels :
            req' = [returns |-> Given([i \in 1..n |-> R1]), equity |-> Absent,
                    period |-> label]
    /\ pc' = "quantstats"
    /\ UNCHANGED <<arr, out, payload, resp, payload2, resp2,
                   returns_arr, qresp, metrics, captured, value, settings>>

\* quantstats_metrics up to the first capture(): the series is chosen, the
\* request refused without two observations, the period resolved and the
\* report opened with qs_sample_size
Prepare ==
    /\ pc = "quantstats"
    /\ returns_arr' = select_returns(req)
    /\ IF Len(select_returns(req)) < 2
         THEN /\ qresp' = 400 /\ pc' = "responded" /\ metrics' = metrics
              /\ settings' = settings
         ELSE IF resolve_period_settings(req.period)[1] # "return"
           THEN /\ qresp' = 500 /\ pc' = "responded" /\ metrics' = metrics
                /\ settings' = settings
           ELSE /\ qresp' = qresp /\ pc' = "capturing"
                /\ settings' = <<resolve_period_settings(req.period)[2],
                                 resolve_period_settings(req.period)[3]>>
                /\ metrics' = store(NoMetrics, "qs_sample_size",
                                    Fin(Len(select_returns(req)), 1))
    /\ UNCHANGED <<arr, out, payload, resp, payload2, resp2, req, captured, value>>

\* capture(name, fn): value = fn()
Call ==
    /\ pc = "capturing"
    /\ captured < Len(StatNames)
    /\ \E o \in Outcomes(captured + 1) : value' = o
    /\ pc' = "storing"
    /\ UNCHANGED <<arr, out, payload, resp, payload2, resp2,
                   req, returns_arr, qresp, metrics, captured, settings>>

\* capture(name, fn): the entry is stored; after the last one the report is returned
Store ==
    /\ pc = "storing"
    /\ metrics' = store(metrics, StatNames[captured + 1], captured_value(value))
    /\ captured' = captured + 1
    /\ value' = NoValue
    /\ IF captured + 1 = Len(StatNames)
         THEN qresp' = 200 /\ pc' = "responded"
         ELSE qresp' = qresp /\ pc' = "capturing"
    /\ UNCHANGED <<arr, out, payload, resp, payload2, resp2, req, returns_arr, settings>>

\* the handler as far as the prepared series
NextMetrics == PostMetrics \/ PostPeriod \/ Prepare \/ Respond

SpecMetrics == Init /\ [][NextMetrics]_vars

\* the handler from a request with clean returns to the report
PostClean ==
    /\ pc = "idle"
    /\ \E n \in 2..MaxRet :
            req' = [returns |-> Given([i \in 1..n |-> R1]), equity |-> Absent,
                    period |-> "daily"]
    /\ pc' = "quantstats"
    /\ UNCHANGED <<arr, out, payload, resp, payload2, resp2,
                   returns_arr, qresp, metrics, captured, value, settings>>

NextCapture == PostClean \/ Prepare \/ Call \/ Store \/ Respond

SpecCapture == Init /\ [][NextCapture]_vars

-----------------------------------------------------------------------------
(* Claims about POST /metrics/quantstats *)

\* the statistic whose capture() is in progress
Current == StatNames[captured + 1]

ReportNames == {StatNames[k] : k \in 1..Len(StatNames)} \cup {"qs_sample_size"}

\* fn() raised, or produced NaN, an infinity, nothing or a non-number
Failed(o) ==
    \/ o.kind \in {"raise", "str"}
    \/ o.kind \in {"ndarray", "list", "tuple"} /\ o.len = 0
    \/ ~isfinite(o.v)

CaptureStep ==
    /\ pc = "storing" =>
          /\ DOMAIN metrics' = DOMAIN metrics \cup {Current}
          /\ metrics'[Current] = IF Failed(value) THEN None ELSE value.v
          /\ \A name \in DOMAIN metrics : metrics'[name] = metrics[name]
    /\ (pc' = "responded" /\ qresp' = 200) =>
          /\ DOMAIN metrics' = ReportNames
          /\ \A name \in ReportNames :
                isfinite(metrics'[name]) \/ metrics'[name] = None

\* C4: whatever subset of the 16 statistics raises or yields NaN, an infinity or
\* a non-number, the report returned holds the 16 statistics and qs_sample_size,
\* each a finite number or null, and every capture() stores the entry of its own
\* statistic only: null if it failed, its value otherwise, the others untouched.
C4_ReportIsolatesFailures == [][CaptureStep]_vars

\* a report returned with a failed first and last statistic around good ones
C4_Witness ==
    /\ pc = "responded" /\ qresp = 200
    /\ metrics["qs_calmar"] = None
    /\ metrics["qs_omega"] = StatValue(2)
    /\ metrics["qs_win_rate"] = StatValue(15)
    /\ metrics["qs_loss_rate"] = None
    /\ metrics["qs_sample_size"] = Fin(2, 1)

\* the handler has chosen its series: it goes on to the statistics or has refused
Prepared == pc = "capturing" \/ (pc = "responded" /\ qresp \in {400, 500})

\* the finite values of a supplied list, in order
FiniteOf(l) == IF l.given THEN SelectSeq(l.a, isfinite) ELSE <<>>

\* the series derived from the equity curve, empty when none is supplied
Derived(r) ==
    IF r.equity.given THEN equity_to_returns(clean_numeric_list(r.equity)) ELSE <<>>

\* C6: with at least 2 finite returns those, in order, are the series used and
\* the equity curve is ignored; otherwise the series derived from a supplied
\* equity curve is used; the request is refused with a 400 exactly when neither
\* yields 2 observations.
C6_SeriesChoice ==
    Prepared =>
        LET fr == FiniteOf(req.returns)
        IN  /\ qresp = 400 <=> (Len(fr) < 2 /\ Len(Derived(req)) < 2)
            /\ qresp # 400 =>
                  /\ Len(fr) >= 2 => returns_arr = fr
                  /\ Len(fr) < 2 => req.equity.given /\ returns_arr = Derived(req)

\* one clean return among non-finite ones, and an equity curve that is used instead
C6_Witness ==
    /\ pc = "capturing"
    /\ Len(req.returns.a) = 3 /\ Len(FiniteOf(req.returns)) = 1
    /\ returns_arr = Derived(req)
    /\ Len(returns_arr) = 3

\* the observations of the adjacent pairs of a curve: E[i+1]/E[i] - 1 for every
\* i with E[i] finite and not zero and E[i+1] finite, in order of i
RECURSIVE AdjacentReturns(_)
AdjacentReturns(E) ==
    IF Len(E) < 2 THEN <<>>
    ELSE (IF E[1].t = "fin" /\ E[1].n # 0 /\ E[2].t = "fin"
            THEN <<RatioMinusOne(E[2], E[1])>> ELSE <<>>)
         \o AdjacentReturns(Tail(E))

\* C9: for an equity-only request the series used is the returns of the adjacent
\* pairs of the supplied curve, a pair with a zero or non-finite member giving
\* none; no return spans two points that are not adjacent in the supplied curve.
C9_AdjacentPairsOnly ==
    (pc = "capturing" /\ ~req.returns.given /\ req.equity.given) =>
        returns_arr = AdjacentReturns(req.equity.a)

\* quantstats_metrics has reached its call of _resolve_period_settings
ResolverCalled == Prepared /\ Len(returns_arr) >= 2

\* the number an unrecognized label spells, None when it spells none
Spelled == float_of(strip_lower(req.period))

Recognized == strip_lower(req.period) \in DOMAIN PERIOD_SETTINGS

\* C11: the period resolver returns a pair for every label and never raises; a
\* recognized label (any case, surrounding whitespace) yields its table entry,
\* an unrecognized string spelling a positive number yields ("D", that number),
\* and every other label (empty, zero, negative, infinite, NaN, other text)
\* yields ("D", 252).
C11_PeriodResolverIsTotal ==
    ResolverCalled =>
        /\ qresp # 500
        /\ IF Recognized
             THEN settings = PERIOD_SETTINGS[strip_lower(req.period)]
             ELSE IF Spelled.t = "fin" /\ Spelled.n > 0
               THEN settings[1] = "D" /\ settings[2] * Spelled.d = Spelled.n
               ELSE settings = <<"D", 252>>

\* what does hold: a label spelling an infinite number ends the request in an
\* uncaught OverflowError; a positive number counts by its integer part, and
\* falls back to ("D", 252) when that part is zero.
PeriodResolverButForInfinity ==
    ResolverCalled =>
        IF Recognized
          THEN qresp # 500 /\ settings = PERIOD_SETTINGS[strip_lower(req.period)]
          ELSE IF Spelled.t \in {"pinf", "ninf"}
            THEN qresp = 500 /\ settings = NoSettings
            ELSE /\ qresp # 500
                 /\ IF Spelled.t = "fin" /\ Spelled.n >= Spelled.d
                      THEN settings = <<"D", Spelled.n \div Spelled.d>>
                      ELSE settings = <<"D", 252>>

\* the label "inf" has been resolved
InfinitePeriodResolved == ResolverCalled /\ req.period = "inf"

-----------------------------------------------------------------------------
(* _nan_to_none on its own *)

Elements == {Fin(1, 1), Fin(-3, 2), NaN, PInf, NInf, None}

\* _nan_to_none is called on a sequence of floats and Nones
Sanitize ==
    /\ pc = "idle"
    /\ \E a \in SeqsOf(Elements, 0, MaxArr) : arr' = a /\ out' = nan_to_none(a)
    /\ pc' = "sanitized"
    /\ UNCHANGED <<payload, resp, payload2, resp2, qvars>>

Return ==
    /\ pc = "sanitized"
    /\ pc' = "idle"
    /\ arr' = <<>> /\ out' = <<>>
    /\ UNCHANGED <<payload, resp, payload2, resp2, qvars>>

NextSanitize == Sanitize \/ Return

SpecSanitize == Init /\ [][NextSanitize]_vars

\* C5: the result has the length and order of the argument, every finite
\* element kept and every NaN, +Inf, -Inf and None replaced by the null marker.
C5_NonFiniteBecomeNull ==
    pc = "sanitized" =>
        /\ Len(out) = Len(arr)
        /\ \A i \in 1..Len(arr) :
              out[i] = IF isfinite(arr[i]) THEN arr[i] ELSE None

\* what does hold: NaN and None become the null marker, every other element,
\* the infinities included, is kept.
NanAndNoneBecomeNull ==
    pc = "sanitized" =>
        /\ Len(out) = Len(arr)
        /\ \A i \in 1..Len(arr) :
              out[i] = IF arr[i].t \in {"nan", "none"} THEN None ELSE arr[i]

=============================================================================
